---- MODULE Spec2Model ----
(***************************************************************************)
(* Model of get-cyberark-ssh-key.py: one run of the script from the try    *)
(* block of __main__ (line 110) to process exit.  The state is the         *)
(* position of the single thread of control, the values the script holds, *)
(* the key files' .ssh directory, the SSH agent, the log.  A step is one   *)
(* statement; a call that waits (a request, the username prompt, ssh-add)  *)
(* is a step that starts the wait and a step that returns from it, so a    *)
(* KeyboardInterrupt can arrive between any two statements and during a    *)
(* wait.  The log holds what logging emits (the script's records and, at   *)
(* level DEBUG, those of the HTTP library under requests.post) and what is *)
(* written on standard output by print, input and argparse.                *)
(*                                                                         *)
(* Strings the code transforms (format, keyAlg, the token body, file       *)
(* names) are sequences of one-character strings.  File permissions are    *)
(* the integer mode bits.  A key's privateKey text is shorter than the     *)
(* io buffer, so f.write() buffers it and the close at the end of the      *)
(* with block puts it in the file.                                         *)
(***************************************************************************)
EXTENDS Integers, Sequences, FiniteSets, TLC

VARIABLES
    pc,         \* line of the script the run is at; "exit" once the process ended
    debug,      \* is the root logger at level DEBUG (lines 106-107)
    baseurl,    \* __main__ baseurl
    default_username,   \* __main__ default_username
    username,   \* __main__ username
    password,   \* __main__ password
    token,      \* self.token
    wire,       \* the response requests.post is receiving, None outside a request
    resp,       \* auth / get_key: resp, the response received: [req, status, body]
    data,       \* get_key: parsed fetch response, None before
    homepath,   \* get_ssh_keyfile_path: homepath, Unbound before line 48
    filepath,   \* get_key: key path prefix (file name part), None before
    files,      \* delete_old_keys: glob result the loop has not reached yet
    file,       \* delete_old_keys: the loop's current file
    idx,        \* get_key: index of the loop's current record in data['value']
    fopen,      \* get_key: is f open (inside the with block)
    fbuf,       \* get_key: text buffered in f, not yet in the file
    child,      \* exit status of the ssh-add child process while the script waits for it
    rc,         \* get_key: result.returncode of ssh-add, None before
    fs,         \* the directory <homepath>/.ssh: file name -> file or NoFile
    fs0,        \* that directory at the start of the run
    umask,      \* the process's file mode creation mask
    tools,      \* which external commands can be started: [ls, sshadd]
    agent,      \* key texts the SSH agent accepted from this run, in order
    log,        \* log records and standard output lines emitted, in order
    trace,      \* requests sent, file operations and process invocations, in order
    exitCode,   \* the process's wait status, None while running
    exitCause   \* why the process ended, None while running

vars == <<pc, debug, baseurl, default_username, username, password, token, wire,
          resp, data, homepath, filepath, files, file, idx, fopen, fbuf, child, rc,
          fs, fs0, umask, tools, agent, log, trace, exitCode, exitCause>>

None == "None"                          \* Python's None, for a string
NoToken == <<None>>                     \* self.token = None
Unbound == "unbound"                    \* a string variable not assigned yet
NoValue == [none |-> TRUE]              \* a name not bound yet
NoReturnCode == -1                      \* ssh-add has not run for the record
Running == -1                           \* the process has not ended
KilledBySigint == -2                    \* wait status of a process SIGINT killed
NoFile == [exists |-> FALSE]            \* no file under that name
NoName == <<>>                          \* no file name bound

(***************************************************************************)
(* Bounds of the model.                                                    *)
(***************************************************************************)
MaxKeys == 2        \* longest data['value'] array explored

(***************************************************************************)
(* Values the run reads from its environment.                              *)
(***************************************************************************)
DebugEnvs == {None, "1"}                      \* DEBUG
ParseOutcomes == {"ok", "help", "usage"}      \* parse_args(): parsed, -h, bad argv
Url == "https://pam.example"
ServerArgs == {None, "", Url}                 \* args.server
BaseurlEnvs == {None, "", Url}                \* CYBERARK_BASEURL
UsernameArgs == {None, "alice"}               \* args.username
UsernameEnvs == {None, "alice"}               \* CYBERARK_USERNAME
TypedUsernames == {"", "alice"}               \* answer to the username prompt
LoginName == "alice"                          \* os.getlogin()
Passwords == {"", "secret"}                   \* answer to the password prompt
HomeValues == {None, "", "/home/u"}           \* HOME
UserProfileValues == {None, "", "/home/u"}    \* USERPROFILE
Umasks == {18}                                \* 0o022, the usual default
HttpOK == 200
AuthStatuses == {HttpOK, 401}
FetchStatuses == {HttpOK, 403}
ReturnCodes == {0, 1}                         \* ssh-add: key added, or not
Quote == "\""
Bodies == { <<Quote, "t", "k", Quote>>,
            <<Quote, Quote, "t", "k", Quote, Quote>> }  \* authenticate response bodies

RAW == <<"R", "A", "W">>
RSA == <<"R", "S", "A">>
ED25519 == <<"E", "D", "2", "5", "5", "1", "9">>
KeyRecords ==
    { [format |-> RAW, keyAlg |-> RSA, privateKey |-> "key-A"],
      [format |-> RAW, keyAlg |-> ED25519, privateKey |-> "key-B"],
      [format |-> <<"r", "a", "w">>, keyAlg |-> <<"R", "s", "a">>,
       privateKey |-> "key-C"] }

RECURSIVE SeqsUpTo(_, _)
SeqsUpTo(S, n) ==
    IF n = 0 THEN { <<>> }
    ELSE LET shorter == SeqsUpTo(S, n - 1)
         IN  shorter \cup { Append(q, x) : q \in shorter, x \in S }

\* json.loads(resp.content) of a 200 fetch response: up to MaxKeys records,
\* no record twice
Bundles == { [expirationTime |-> 1700000000, value |-> v] :
             v \in { q \in SeqsUpTo(KeyRecords, MaxKeys) :
                        \A i, j \in DOMAIN q : i # j => q[i] # q[j] } }

(***************************************************************************)
(* Pure functions of the script and of the library calls it makes.         *)
(***************************************************************************)
Truthy(x) == x \notin {None, ""}

\* Python's  a or b
Or(a, b) == IF Truthy(a) THEN a ELSE b

\* the lowercase of each letter str.lower() changes in the names of the model
LowerOf == [A |-> "a", B |-> "b", C |-> "c", D |-> "d", E |-> "e", F |-> "f",
            G |-> "g", H |-> "h", I |-> "i", J |-> "j", K |-> "k", L |-> "l",
            M |-> "m", N |-> "n", O |-> "o", P |-> "p", Q |-> "q", R |-> "r",
            S |-> "s", T |-> "t", U |-> "u", V |-> "v", W |-> "w", X |-> "x",
            Y |-> "y", Z |-> "z"]

LowerChar(c) == IF c \in DOMAIN LowerOf THEN LowerOf[c] ELSE c

\* str.lower()
Lower(s) == [i \in 1..Len(s) |-> LowerChar(s[i])]

RECURSIVE LStrip(_, _)
LStrip(s, ch) ==
    IF s # <<>> /\ Head(s) = ch THEN LStrip(Tail(s), ch) ELSE s

RECURSIVE RStrip(_, _)
RStrip(s, ch) ==
    IF s # <<>> /\ s[Len(s)] = ch THEN RStrip(SubSeq(s, 1, Len(s) - 1), ch)
    ELSE s

\* str.strip(ch)
Strip(s, ch) == RStrip(LStrip(s, ch), ch)

\* fnmatch of a file name against a pattern of literal characters and "*"
RECURSIVE FnMatch(_, _)
FnMatch(pat, name) ==
    IF pat = <<>> THEN name = <<>>
    ELSE IF Head(pat) = "*"
         THEN \/ FnMatch(Tail(pat), name)
              \/ name # <<>> /\ FnMatch(pat, Tail(name))
         ELSE /\ name # <<>>
              /\ Head(name) = Head(pat)
              /\ FnMatch(Tail(pat), Tail(name))

RECURSIVE BitAnd(_, _)
BitAnd(a, b) ==
    IF a = 0 \/ b = 0 THEN 0
    ELSE 2 * BitAnd(a \div 2, b \div 2) + (IF a % 2 = 1 /\ b % 2 = 1 THEN 1 ELSE 0)

OwnerRW == 384          \* 0o600
CreateMode == 438       \* 0o666, the mode open(..., 'w') asks for
\* mode of a file open() creates under the process umask
CreatedMode(mask) == CreateMode - BitAnd(CreateMode, mask)

\* 'id_cyberark_session'
Keyname == <<"i", "d", "_", "c", "y", "b", "e", "r", "a", "r", "k", "_",
             "s", "e", "s", "s", "i", "o", "n">>

\* f"{filepath}_{key['format'].lower()}_{key['keyAlg'].lower()}"
Filename(prefix, key) ==
    [dir |-> prefix.dir,
     name |-> prefix.name \o <<"_">> \o Lower(key.format)
                          \o <<"_">> \o Lower(key.keyAlg)]

\* f"{filepathprefix}_*"
FilePattern(prefix) == prefix \o <<"_", "*">>

(***************************************************************************)
(* The .ssh directory.                                                     *)
(***************************************************************************)
KeyPrefix == [dir |-> "/home/u", name |-> Keyname]

\* names a file of the directory can have in the model
StartNames == { Keyname \o <<"_", "r", "a", "w", "_", "r", "s", "a">>,
                Keyname \o <<"_", "o", "l", "d">>,
                Keyname }
Names == StartNames \cup { Filename(KeyPrefix, k).name : k \in KeyRecords }

\* a file left by an earlier run or by the user
OldFile == [exists |-> TRUE, content |-> "old", mode |-> OwnerRW]

\* the directory at the start: it holds the file of the bare key name, which
\* the pattern does not match, and no stale key file or two of them
StartDirs ==
    { [n \in Names |-> IF n \in S THEN OldFile ELSE NoFile] :
      S \in { {Keyname}, StartNames } }

Exists(dir, n) == dir[n].exists

\* variant: the pattern loses its trailing "*"
Glob_NoStar(dir, pattern) ==
    { n \in Names : Exists(dir, n) /\ n = SubSeq(pattern, 1, Len(pattern) - 1) }

\* glob.glob(pattern): the existing names the pattern matches
Glob(dir, pattern) == { n \in Names : Exists(dir, n) /\ FnMatch(pattern, n) }

\* open(name, 'w'): create with the umask's mode, or truncate keeping the mode
OpenW(dir, n, mask) ==
    [dir EXCEPT ![n] = IF Exists(dir, n)
                       THEN [@ EXCEPT !.content = ""]
                       ELSE [exists |-> TRUE, content |-> "",
                             mode |-> CreatedMode(mask)]]

\* variant: the buffered text never reaches the file
Flush_Dropped(dir, n, text) == dir

\* flush of the buffered text into the open file
Flush(dir, n, text) ==
    IF text = "" THEN dir ELSE [dir EXCEPT ![n].content = @ \o text]

\* variant: the chmod is left out
ChmodFile_Skipped(dir, n, mode) == dir

\* os.chmod(name, mode)
ChmodFile(dir, n, mode) == [dir EXCEPT ![n].mode = mode]

\* os.remove(name) / os.unlink(name)
RemoveFile(dir, n) == [dir EXCEPT ![n] = NoFile]

(***************************************************************************)
(* How the process ends.                                                   *)
(***************************************************************************)
SystemExit(code) == [type |-> "SystemExit", code |-> code]
Interrupted == [type |-> "KeyboardInterrupt"]
UncaughtError == [type |-> "Exception"]
Returned == [type |-> "return"]

\* how the process ends when control leaves the script this way: by
\* returning, by a SystemExit, by a KeyboardInterrupt nothing catches (Python
\* then dies of SIGINT), by any other exception nothing catches
ExitStatus(exc) ==
    CASE exc.type = "return" -> 0
      [] exc.type = "SystemExit" -> exc.code
      [] exc.type = "KeyboardInterrupt" -> KilledBySigint
      [] OTHER -> 1

Terminate(exc, cause) ==
    /\ pc' = "exit"
    /\ exitCode' = ExitStatus(exc)
    /\ exitCause' = cause

Goto(l) == pc' = l /\ UNCHANGED <<exitCode, exitCause>>

LogRecord(level, event, i) == [level |-> level, event |-> event, idx |-> i]
\* a log record that reports a response: Status={resp.status_code}, response: {resp.content}
LogResponse(level, event, r) ==
    [level |-> level, event |-> event, idx |-> 0,
     status |-> r.status, body |-> r.body]
Emit(level, event, i) == log' = Append(log, LogRecord(level, event, i))
Did(op, i, arg) == trace' = Append(trace, [op |-> op, idx |-> i, arg |-> arg])

\* the record the install loop is at
Key == data.value[idx]
\* filename of the loop's current record
CurName == Filename(filepath, Key).name

Init ==
    /\ pc = "L114"
    /\ debug \in { Truthy(d) : d \in DebugEnvs }
    /\ baseurl = None /\ default_username = None
    /\ username = None /\ password = None
    /\ token = NoToken /\ wire = NoValue /\ resp = NoValue /\ data = NoValue
    /\ homepath = Unbound /\ filepath = NoValue
    /\ files = {} /\ file = NoName /\ idx = 0
    /\ fopen = FALSE /\ fbuf = "" /\ child = NoReturnCode /\ rc = NoReturnCode
    /\ fs \in StartDirs /\ fs0 = fs
    /\ umask \in Umasks
    /\ tools = [ls |-> None, sshadd |-> None]
    /\ agent = <<>> /\ log = <<>> /\ trace = <<>>
    /\ exitCode = Running /\ exitCause = None

\* logging.debug(...): emitted only at level DEBUG
EmitDebug(event, i) ==
    log' = IF debug THEN Append(log, LogRecord("DEBUG", event, i)) ELSE log

\* the HTTP library's DEBUG record of a response's status line
EmitDebugStatus(status) ==
    log' = IF debug
           THEN Append(log, [level |-> "DEBUG", event |-> "http_response",
                             idx |-> 0, status |-> status])
           ELSE log

\* line 114: parser.parse_args(); -h prints the help text, a bad command
\* line prints the usage on standard error, and both then end the process
ParseArgs ==
    /\ pc = "L114"
    /\ \E outcome \in ParseOutcomes :
         CASE outcome = "ok" -> Goto("L115") /\ UNCHANGED log
           [] outcome = "help" -> Goto("L114h") /\ Emit("PRINT", "help", 0)
           [] outcome = "usage" -> Goto("L114u") /\ UNCHANGED log
    /\ UNCHANGED <<debug, baseurl, default_username, username, password, token,
                   wire, resp, data, homepath, filepath, files, file, idx,
                   fopen, fbuf, child, rc, fs, fs0, umask, tools, agent, trace>>

\* line 114: argparse's exit: status 0 after the help text, 2 after a usage error
ParseArgsExit ==
    /\ pc \in {"L114h", "L114u"}
    /\ IF pc = "L114h" THEN Terminate(SystemExit(0), "help")
                       ELSE Terminate(SystemExit(2), "usage")
    /\ UNCHANGED <<debug, baseurl, default_username, username, password, token,
                   wire, resp, data, homepath, filepath, files, file, idx,
                   fopen, fbuf, child, rc, fs, fs0, umask, tools, agent, log,
                   trace>>

\* lines 115-116: baseurl = args.server or os.getenv('CYBERARK_BASEURL')
CheckBaseurl ==
    /\ pc = "L115"
    /\ \E server \in ServerArgs, env \in BaseurlEnvs :
         /\ baseurl' = Or(server, env)
         /\ IF ~Truthy(baseurl') THEN Goto("L117") ELSE Goto("L119")
    /\ UNCHANGED <<debug, default_username, username, password, token, wire,
                   resp, data, homepath, filepath, files, file, idx, fopen,
                   fbuf, child, rc, fs, fs0, umask, tools, agent, log, trace>>

\* line 117: print the missing base URL error
PrintNoBaseurl ==
    /\ pc = "L117"
    /\ Emit("PRINT", "no_baseurl", 0)
    /\ Goto("L118")
    /\ UNCHANGED <<debug, baseurl, default_username, username, password, token,
                   wire, resp, data, homepath, filepath, files, file, idx,
                   fopen, fbuf, child, rc, fs, fs0, umask, tools, agent, trace>>

\* line 118: exit(1)
ExitNoBaseurl ==
    /\ pc = "L118"
    /\ Terminate(SystemExit(1), "no_baseurl")
    /\ UNCHANGED <<debug, baseurl, default_username, username, password, token,
                   wire, resp, data, homepath, filepath, files, file, idx,
                   fopen, fbuf, child, rc, fs, fs0, umask, tools, agent, log,
                   trace>>

\* line 119: print(f"Authenticating to {baseurl}")
PrintAuthenticating ==
    /\ pc = "L119"
    /\ Emit("PRINT", "authenticating", 0)
    /\ Goto("L120")
    /\ UNCHANGED <<debug, baseurl, default_username, username, password, token,
                   wire, resp, data, homepath, filepath, files, file, idx,
                   fopen, fbuf, child, rc, fs, fs0, umask, tools, agent, trace>>

\* lines 120-121: username = args.username or os.getenv('CYBERARK_USERNAME')
GetUsername ==
    /\ pc = "L120"
    /\ \E arg \in UsernameArgs, env \in UsernameEnvs :
         /\ username' = Or(arg, env)
         /\ IF ~Truthy(username') THEN Goto("L122") ELSE Goto("L126")
    /\ UNCHANGED <<debug, baseurl, default_username, password, token, wire,
                   resp, data, homepath, filepath, files, file, idx, fopen,
                   fbuf, child, rc, fs, fs0, umask, tools, agent, log, trace>>

\* line 122: default_username = os.getlogin(); without a controlling terminal
\* the call raises OSError, which nothing catches
GetLogin ==
    /\ pc = "L122"
    /\ \/ /\ default_username' = LoginName
          /\ Goto("L123")
       \/ /\ Terminate(UncaughtError, "exception")
          /\ UNCHANGED default_username
    /\ UNCHANGED <<debug, baseurl, username, password, token, wire, resp, data,
                   homepath, filepath, files, file, idx, fopen, fbuf, child,
                   rc, fs, fs0, umask, tools, agent, log, trace>>

\* line 123: input(...) writes the prompt and waits for a line; the prompt is
\* written on standard output, or on standard error when standard input and
\* output are a terminal
InputPrompt ==
    /\ pc = "L123"
    /\ \E tty \in BOOLEAN :
         IF tty THEN UNCHANGED log ELSE Emit("PRINT", "username_prompt", 0)
    /\ Goto("L123w")
    /\ UNCHANGED <<debug, baseurl, default_username, username, password, token,
                   wire, resp, data, homepath, filepath, files, file, idx,
                   fopen, fbuf, child, rc, fs, fs0, umask, tools, agent, trace>>

\* lines 123-124: input() returns the line typed, or raises EOFError at end of input
InputUsername ==
    /\ pc = "L123w"
    /\ \/ \E typed \in TypedUsernames :
            /\ username' = typed
            /\ IF ~Truthy(typed) THEN Goto("L125") ELSE Goto("L126")
       \/ /\ Terminate(UncaughtError, "exception")
          /\ UNCHANGED username
    /\ UNCHANGED <<debug, baseurl, default_username, password, token, wire,
                   resp, data, homepath, filepath, files, file, idx, fopen,
                   fbuf, child, rc, fs, fs0, umask, tools, agent, log, trace>>

\* line 125: username = default_username
DefaultUsername ==
    /\ pc = "L125"
    /\ username' = default_username
    /\ Goto("L126")
    /\ UNCHANGED <<debug, baseurl, default_username, password, token, wire,
                   resp, data, homepath, filepath, files, file, idx, fopen,
                   fbuf, child, rc, fs, fs0, umask, tools, agent, log, trace>>

\* lines 126-127: password = getpass.getpass(...); the prompt goes to the
\* terminal; end of input raises EOFError
GetPassword ==
    /\ pc = "L126"
    /\ \/ \E pw \in Passwords :
            /\ password' = pw
            /\ IF ~Truthy(pw) THEN Goto("L128") ELSE Goto("L131")
       \/ /\ Terminate(UncaughtError, "exception")
          /\ UNCHANGED password
    /\ UNCHANGED <<debug, baseurl, default_username, username, token, wire,
                   resp, data, homepath, filepath, files, file, idx, fopen,
                   fbuf, child, rc, fs, fs0, umask, tools, agent, log, trace>>

\* line 128: print("No password set. Exiting.")
PrintNoPassword ==
    /\ pc = "L128"
    /\ Emit("PRINT", "no_password", 0)
    /\ Goto("L129")
    /\ UNCHANGED <<debug, baseurl, default_username, username, password, token,
                   wire, resp, data, homepath, filepath, files, file, idx,
                   fopen, fbuf, child, rc, fs, fs0, umask, tools, agent, trace>>

\* line 129: exit(1)
ExitNoPassword ==
    /\ pc = "L129"
    /\ Terminate(SystemExit(1), "no_password")
    /\ UNCHANGED <<debug, baseurl, default_username, username, password, token,
                   wire, resp, data, homepath, filepath, files, file, idx,
                   fopen, fbuf, child, rc, fs, fs0, umask, tools, agent, log,
                   trace>>

\* lines 131, 22-30: CyberarkSSHKeyFetcher(...) -> __init__ -> auth() calls
\* requests.post, which opens a connection (the HTTP library logs it at DEBUG)
AuthConnect ==
    /\ pc = "L131"
    /\ EmitDebug("http_connect", 0)
    /\ Goto("L30c")
    /\ UNCHANGED <<debug, baseurl, default_username, username, password, token,
                   wire, resp, data, homepath, filepath, files, file, idx,
                   fopen, fbuf, child, rc, fs, fs0, umask, tools, agent, trace>>

\* lines 30-37: requests.post connects and sends the logon request, then waits
\* for the answer; a connection that cannot be made raises
AuthSend ==
    /\ pc = "L30c"
    /\ \/ /\ Did("auth", 0, <<>>)
          /\ Goto("L30w")
       \/ /\ Terminate(UncaughtError, "exception")
          /\ UNCHANGED trace
    /\ UNCHANGED <<debug, baseurl, default_username, username, password, token,
                   wire, resp, data, homepath, filepath, files, file, idx,
                   fopen, fbuf, child, rc, fs, fs0, umask, tools, agent, log>>

\* line 30: the status line of the answer arrives inside requests.post (the
\* HTTP library logs it at DEBUG), or the connection is lost first
AuthReceive ==
    /\ pc = "L30w"
    /\ \/ \E status \in AuthStatuses, body \in Bodies :
            /\ wire' = [req |-> "auth", status |-> status, body |-> body]
            /\ EmitDebugStatus(status)
            /\ Goto("L30r")
       \/ /\ Terminate(UncaughtError, "exception")
          /\ UNCHANGED <<wire, log>>
    /\ UNCHANGED <<debug, baseurl, default_username, username, password, token,
                   resp, data, homepath, filepath, files, file, idx, fopen,
                   fbuf, child, rc, fs, fs0, umask, tools, agent, trace>>

\* lines 30, 39: requests.post reads the body and returns the response, or
\* raises (the connection is lost); if resp.status_code == 200
AuthReturn ==
    /\ pc = "L30r"
    /\ \/ /\ resp' = wire
          /\ wire' = NoValue
          /\ IF wire.status = HttpOK THEN Goto("L40") ELSE Goto("L43")
       \/ /\ Terminate(UncaughtError, "exception")
          /\ UNCHANGED <<wire, resp>>
    /\ UNCHANGED <<debug, baseurl, default_username, username, password, token,
                   data, homepath, filepath, files, file, idx, fopen, fbuf,
                   child, rc, fs, fs0, umask, tools, agent, log, trace>>

\* line 40: self.token = resp.content.decode('utf-8').strip('"')
StoreToken ==
    /\ pc = "L40"
    /\ token' = Strip(resp.body, Quote)
    /\ Goto("L41")
    /\ UNCHANGED <<debug, baseurl, default_username, username, password, wire,
                   resp, data, homepath, filepath, files, file, idx, fopen,
                   fbuf, child, rc, fs, fs0, umask, tools, agent, log, trace>>

\* line 41: logging.debug(...); auth() and __init__ return, get_key() is called
AuthDebug ==
    /\ pc = "L41"
    /\ EmitDebug("auth_ok", 0)
    /\ resp' = NoValue
    /\ Goto("L68")
    /\ UNCHANGED <<debug, baseurl, default_username, username, password, token,
                   wire, data, homepath, filepath, files, file, idx, fopen,
                   fbuf, child, rc, fs, fs0, umask, tools, agent, trace>>

\* line 43: logging.error(Authentication failed. Status=..., response: ...)
AuthLogError ==
    /\ pc = "L43"
    /\ log' = Append(log, LogResponse("ERROR", "auth_failed", resp))
    /\ Goto("L44")
    /\ UNCHANGED <<debug, baseurl, default_username, username, password, token,
                   wire, resp, data, homepath, filepath, files, file, idx,
                   fopen, fbuf, child, rc, fs, fs0, umask, tools, agent, trace>>

\* variant: auth() returns after a failed logon instead of exiting
AuthExit_Returns ==
    /\ pc = "L44"
    /\ resp' = NoValue
    /\ Goto("L68")
    /\ UNCHANGED <<debug, baseurl, default_username, username, password, token,
                   wire, data, homepath, filepath, files, file, idx, fopen,
                   fbuf, child, rc, fs, fs0, umask, tools, agent, log, trace>>

\* line 44: exit(1)
AuthExit ==
    /\ pc = "L44"
    /\ Terminate(SystemExit(1), "auth_failed")
    /\ UNCHANGED <<debug, baseurl, default_username, username, password, token,
                   wire, resp, data, homepath, filepath, files, file, idx,
                   fopen, fbuf, child, rc, fs, fs0, umask, tools, agent, log,
                   trace>>

\* lines 132, 68: get_key() calls requests.post, which opens a new connection
\* (the HTTP library logs it at DEBUG)
FetchConnect ==
    /\ pc = "L68"
    /\ EmitDebug("http_connect", 0)
    /\ Goto("L68c")
    /\ UNCHANGED <<debug, baseurl, default_username, username, password, token,
                   wire, resp, data, homepath, filepath, files, file, idx,
                   fopen, fbuf, child, rc, fs, fs0, umask, tools, agent, trace>>

\* lines 68-74: requests.post connects and sends the fetch request with
\* self.token, then waits; a connection that cannot be made raises
FetchSend ==
    /\ pc = "L68c"
    /\ \/ /\ Did("fetch", 0, token)
          /\ Goto("L68w")
       \/ /\ Terminate(UncaughtError, "exception")
          /\ UNCHANGED trace
    /\ UNCHANGED <<debug, baseurl, default_username, username, password, token,
                   wire, resp, data, homepath, filepath, files, file, idx,
                   fopen, fbuf, child, rc, fs, fs0, umask, tools, agent, log>>

\* line 68: the status line of the answer arrives inside requests.post (the
\* HTTP library logs it at DEBUG), or the connection is lost first
FetchReceive ==
    /\ pc = "L68w"
    /\ \/ \E bundle \in Bundles :
            /\ wire' = [req |-> "fetch", status |-> HttpOK, body |-> bundle]
            /\ EmitDebugStatus(HttpOK)
            /\ Goto("L68r")
       \/ \E status \in FetchStatuses \ {HttpOK} :
            /\ wire' = [req |-> "fetch", status |-> status, body |-> <<>>]
            /\ EmitDebugStatus(status)
            /\ Goto("L68r")
       \/ /\ Terminate(UncaughtError, "exception")
          /\ UNCHANGED <<wire, log>>
    /\ UNCHANGED <<debug, baseurl, default_username, username, password, token,
                   resp, data, homepath, filepath, files, file, idx, fopen,
                   fbuf, child, rc, fs, fs0, umask, tools, agent, trace>>

\* lines 68, 75: requests.post reads the body and returns the response, or
\* raises (the connection is lost); if resp.status_code != 200
FetchReturn ==
    /\ pc = "L68r"
    /\ \/ /\ resp' = wire
          /\ wire' = NoValue
          /\ IF wire.status = HttpOK THEN Goto("L79") ELSE Goto("L76")
       \/ /\ Terminate(UncaughtError, "exception")
          /\ UNCHANGED <<wire, resp>>
    /\ UNCHANGED <<debug, baseurl, default_username, username, password, token,
                   data, homepath, filepath, files, file, idx, fopen, fbuf,
                   child, rc, fs, fs0, umask, tools, agent, log, trace>>

\* line 76: logging.error(Failed to get SSH key. Status=..., response: ...)
FetchLogError ==
    /\ pc = "L76"
    /\ log' = Append(log, LogResponse("ERROR", "fetch_failed", resp))
    /\ Goto("L77")
    /\ UNCHANGED <<debug, baseurl, default_username, username, password, token,
                   wire, resp, data, homepath, filepath, files, file, idx,
                   fopen, fbuf, child, rc, fs, fs0, umask, tools, agent, trace>>

\* variant: get_key() goes on with no records after a failed fetch
FetchExit_Returns ==
    /\ pc = "L77"
    /\ data' = [expirationTime |-> 0, value |-> <<>>]
    /\ Goto("L80")
    /\ UNCHANGED <<debug, baseurl, default_username, username, password, token,
                   wire, resp, homepath, filepath, files, file, idx, fopen,
                   fbuf, child, rc, fs, fs0, umask, tools, agent, log, trace>>

\* variant: get_key() sends the fetch request once more after a failed one
FetchExit_Retries ==
    /\ pc = "L77"
    /\ IF Cardinality({ j \in DOMAIN trace : trace[j].op = "fetch" }) < 2
       THEN Goto("L68")
       ELSE Terminate(SystemExit(1), "fetch_failed")
    /\ UNCHANGED <<debug, baseurl, default_username, username, password, token,
                   wire, resp, data, homepath, filepath, files, file, idx,
                   fopen, fbuf, child, rc, fs, fs0, umask, tools, agent, log,
                   trace>>

\* line 77: exit(1)
FetchExit ==
    /\ pc = "L77"
    /\ Terminate(SystemExit(1), "fetch_failed")
    /\ UNCHANGED <<debug, baseurl, default_username, username, password, token,
                   wire, resp, data, homepath, filepath, files, file, idx,
                   fopen, fbuf, child, rc, fs, fs0, umask, tools, agent, log,
                   trace>>

\* line 79: data = json.loads(resp.content)
ParseData ==
    /\ pc = "L79"
    /\ data' = resp.body
    /\ Goto("L80")
    /\ UNCHANGED <<debug, baseurl, default_username, username, password, token,
                   wire, resp, homepath, filepath, files, file, idx, fopen,
                   fbuf, child, rc, fs, fs0, umask, tools, agent, log, trace>>

\* line 80: logging.debug(f"Got key data: {data}")
FetchDebug ==
    /\ pc = "L80"
    /\ EmitDebug("got_data", 0)
    /\ Goto("L81")
    /\ UNCHANGED <<debug, baseurl, default_username, username, password, token,
                   wire, resp, data, homepath, filepath, files, file, idx,
                   fopen, fbuf, child, rc, fs, fs0, umask, tools, agent, trace>>

\* lines 81, 48-49: homepath = os.getenv('HOME') or os.getenv('USERPROFILE')
GetHomepath ==
    /\ pc = "L81"
    /\ \E home \in HomeValues, profile \in UserProfileValues :
         /\ homepath' = Or(home, profile)
         /\ IF homepath' = None THEN Goto("L50") ELSE Goto("L54")
    /\ UNCHANGED <<debug, baseurl, default_username, username, password, token,
                   wire, resp, data, filepath, files, file, idx, fopen, fbuf,
                   child, rc, fs, fs0, umask, tools, agent, log, trace>>

\* lines 50-52: logging.error(Could not determine current user's home directory...)
HomeLogError ==
    /\ pc = "L50"
    /\ Emit("ERROR", "no_home", 0)
    /\ Goto("L53")
    /\ UNCHANGED <<debug, baseurl, default_username, username, password, token,
                   wire, resp, data, homepath, filepath, files, file, idx,
                   fopen, fbuf, child, rc, fs, fs0, umask, tools, agent, trace>>

\* line 53: exit(1)
HomeExit ==
    /\ pc = "L53"
    /\ Terminate(SystemExit(1), "no_home")
    /\ UNCHANGED <<debug, baseurl, default_username, username, password, token,
                   wire, resp, data, homepath, filepath, files, file, idx,
                   fopen, fbuf, child, rc, fs, fs0, umask, tools, agent, log,
                   trace>>

\* lines 54, 81: filepath = os.path.join(homepath, '.ssh', keyname)
GetSshKeyfilePath ==
    /\ pc = "L54"
    /\ filepath' = [dir |-> homepath, name |-> Keyname]
    /\ Goto("L82")
    /\ UNCHANGED <<debug, baseurl, default_username, username, password, token,
                   wire, resp, data, homepath, files, file, idx, fopen, fbuf,
                   child, rc, fs, fs0, umask, tools, agent, log, trace>>

\* variant: delete_old_keys() is not called
DeleteOldKeysGlob_Skipped ==
    /\ pc = "L82"
    /\ Goto("L83")
    /\ UNCHANGED <<debug, baseurl, default_username, username, password, token,
                   wire, resp, data, homepath, filepath, files, file, idx,
                   fopen, fbuf, child, rc, fs, fs0, umask, tools, agent, log,
                   trace>>

\* lines 82, 58-61: delete_old_keys(filepath) lists the files to delete
DeleteOldKeysGlob ==
    /\ pc = "L82"
    /\ files' = Glob(fs, FilePattern(filepath.name))
    /\ Did("purge", 0, <<>>)
    /\ Goto("L62")
    /\ UNCHANGED <<debug, baseurl, default_username, username, password, token,
                   wire, resp, data, homepath, filepath, file, idx, fopen,
                   fbuf, child, rc, fs, fs0, umask, tools, agent, log>>

\* line 62: for file in files takes the next file; glob's order is the
\* directory's, which the script does not choose
DeleteOldKeysNext ==
    /\ pc = "L62"
    /\ files # {}
    /\ \E f \in files :
         /\ file' = f
         /\ files' = files \ {f}
    /\ Goto("L63")
    /\ UNCHANGED <<debug, baseurl, default_username, username, password, token,
                   wire, resp, data, homepath, filepath, idx, fopen, fbuf,
                   child, rc, fs, fs0, umask, tools, agent, log, trace>>

\* line 63: logging.debug(f"Deleting old key file: {file}")
DeleteOldKeysDebug ==
    /\ pc = "L63"
    /\ EmitDebug("deleting", 0)
    /\ Goto("L64")
    /\ UNCHANGED <<debug, baseurl, default_username, username, password, token,
                   wire, resp, data, homepath, filepath, files, file, idx,
                   fopen, fbuf, child, rc, fs, fs0, umask, tools, agent, trace>>

\* variant: the loop stops after the first file
DeleteOldKeysRemove_OnlyFirst ==
    /\ pc = "L64"
    /\ fs' = RemoveFile(fs, file)
    /\ files' = {}
    /\ Did("remove", 0, <<>>)
    /\ Goto("L62")
    /\ UNCHANGED <<debug, baseurl, default_username, username, password, token,
                   wire, resp, data, homepath, filepath, file, idx, fopen,
                   fbuf, child, rc, fs0, umask, tools, agent, log>>

\* line 64: os.remove(file)
DeleteOldKeysRemove ==
    /\ pc = "L64"
    /\ fs' = RemoveFile(fs, file)
    /\ Did("remove", 0, <<>>)
    /\ Goto("L62")
    /\ UNCHANGED <<debug, baseurl, default_username, username, password, token,
                   wire, resp, data, homepath, filepath, files, file, idx,
                   fopen, fbuf, child, rc, fs0, umask, tools, agent, log>>

\* line 62: the list is exhausted, delete_old_keys returns to the install loop
DeleteOldKeysReturn ==
    /\ pc = "L62"
    /\ files = {}
    /\ Goto("L83")
    /\ UNCHANGED <<debug, baseurl, default_username, username, password, token,
                   wire, resp, data, homepath, filepath, files, file, idx,
                   fopen, fbuf, child, rc, fs, fs0, umask, tools, agent, log,
                   trace>>

\* variant: the loop starts over after the last record
LoopNext_Revisits ==
    /\ pc = "L83"
    /\ IF idx < Len(data.value)
       THEN /\ idx' = idx + 1
            /\ rc' = NoReturnCode
            /\ Goto("L86")
       ELSE IF idx >= 1
       THEN /\ idx' = 1
            /\ rc' = NoReturnCode
            /\ Goto("L86")
       ELSE /\ Terminate(Returned, "completed")
            /\ UNCHANGED <<idx, rc>>
    /\ UNCHANGED <<debug, baseurl, default_username, username, password, token,
                   wire, resp, data, homepath, filepath, files, file, fopen,
                   fbuf, child, fs, fs0, umask, tools, agent, log, trace>>

\* variant: the loop steps over a record
LoopNext_SkipsRecord ==
    /\ pc = "L83"
    /\ IF idx < Len(data.value)
       THEN /\ idx' = IF idx + 2 <= Len(data.value) THEN idx + 2 ELSE idx + 1
            /\ rc' = NoReturnCode
            /\ Goto("L86")
       ELSE /\ Terminate(Returned, "completed")
            /\ UNCHANGED <<idx, rc>>
    /\ UNCHANGED <<debug, baseurl, default_username, username, password, token,
                   wire, resp, data, homepath, filepath, files, file, fopen,
                   fbuf, child, fs, fs0, umask, tools, agent, log, trace>>

\* lines 83-85: the for loop takes the next record, or get_key returns and
\* the script ends
LoopNext ==
    /\ pc = "L83"
    /\ IF idx < Len(data.value)
       THEN /\ idx' = idx + 1
            /\ rc' = NoReturnCode
            /\ Goto("L86")
       ELSE /\ Terminate(Returned, "completed")
            /\ UNCHANGED <<idx, rc>>
    /\ UNCHANGED <<debug, baseurl, default_username, username, password, token,
                   wire, resp, data, homepath, filepath, files, file, fopen,
                   fbuf, child, fs, fs0, umask, tools, agent, log, trace>>

\* line 86: with open(filename, 'w') as f
OpenKeyFile ==
    /\ pc = "L86"
    /\ fs' = OpenW(fs, CurName, umask)
    /\ fopen' = TRUE
    /\ fbuf' = ""
    /\ Did("open", idx, CurName)
    /\ Goto("L87")
    /\ UNCHANGED <<debug, baseurl, default_username, username, password, token,
                   wire, resp, data, homepath, filepath, files, file, idx,
                   child, rc, fs0, umask, tools, agent, log>>

\* line 87: f.write(key['privateKey']) goes to f's buffer
WriteKey ==
    /\ pc = "L87"
    /\ fbuf' = fbuf \o Key.privateKey
    /\ Did("write", idx, CurName)
    /\ Goto("L88")
    /\ UNCHANGED <<debug, baseurl, default_username, username, password, token,
                   wire, resp, data, homepath, filepath, files, file, idx,
                   fopen, child, rc, fs, fs0, umask, tools, agent, log>>

\* line 88: os.chmod(f.name, 0o600)
ChmodKeyFile ==
    /\ pc = "L88"
    /\ fs' = ChmodFile(fs, CurName, OwnerRW)
    /\ Did("chmod", idx, CurName)
    /\ Goto("L88c")
    /\ UNCHANGED <<debug, baseurl, default_username, username, password, token,
                   wire, resp, data, homepath, filepath, files, file, idx,
                   fopen, fbuf, child, rc, fs0, umask, tools, agent, log>>

\* end of the with block (after line 88): f is flushed and closed
CloseKeyFile ==
    /\ pc = "L88c"
    /\ fs' = Flush(fs, CurName, fbuf)
    /\ fbuf' = ""
    /\ fopen' = FALSE
    /\ Goto("L89")
    /\ UNCHANGED <<debug, baseurl, default_username, username, password, token,
                   wire, resp, data, homepath, filepath, files, file, idx,
                   child, rc, fs0, umask, tools, agent, log, trace>>

\* lines 89-92: logging.info(Wrote SSH ... key ...)
LogWrote ==
    /\ pc = "L89"
    /\ Emit("INFO", "wrote", idx)
    /\ Goto("L93")
    /\ UNCHANGED <<debug, baseurl, default_username, username, password, token,
                   wire, resp, data, homepath, filepath, files, file, idx,
                   fopen, fbuf, child, rc, fs, fs0, umask, tools, agent, trace>>

\* line 93: subprocess.run(["ls", "-l", filename]); a command that cannot be
\* started raises FileNotFoundError, which nothing catches
Ls ==
    /\ pc = "L93"
    /\ \E ok \in (IF tools.ls = None THEN {"ok", "missing"} ELSE {tools.ls}) :
         /\ tools' = [tools EXCEPT !.ls = ok]
         /\ Did("ls", idx, CurName)
         /\ IF ok = "ok" THEN Goto("L94")
                         ELSE Terminate(UncaughtError, "exception")
    /\ UNCHANGED <<debug, baseurl, default_username, username, password, token,
                   wire, resp, data, homepath, filepath, files, file, idx,
                   fopen, fbuf, child, rc, fs, fs0, umask, agent, log>>

\* line 94: subprocess.run(["ssh-add", filename], ...) starts the command and
\* waits for it; a command that cannot be started raises FileNotFoundError
SshAddStart ==
    /\ pc = "L94"
    /\ \E ok \in (IF tools.sshadd = None THEN {"ok", "missing"} ELSE {tools.sshadd}) :
         /\ tools' = [tools EXCEPT !.sshadd = ok]
         /\ Did("ssh-add", idx, CurName)
         /\ IF ok = "ok" THEN Goto("L94w")
                         ELSE Terminate(UncaughtError, "exception")
    /\ child' = NoReturnCode
    /\ UNCHANGED <<debug, baseurl, default_username, username, password, token,
                   wire, resp, data, homepath, filepath, files, file, idx,
                   fopen, fbuf, rc, fs, fs0, umask, agent, log>>

\* line 94, in the child process: ssh-add reads the key from the file; the
\* agent keeps it when it accepts it; the child exits
SshAddChild ==
    /\ pc = "L94w"
    /\ child = NoReturnCode
    /\ \E r \in ReturnCodes :
         /\ child' = r
         /\ agent' = IF r = 0 THEN Append(agent, fs[CurName].content) ELSE agent
    /\ Goto("L94w")
    /\ UNCHANGED <<debug, baseurl, default_username, username, password, token,
                   wire, resp, data, homepath, filepath, files, file, idx,
                   fopen, fbuf, rc, fs, fs0, umask, tools, log, trace>>

\* lines 94-95: subprocess.run returns, result.returncode is the child's status
SshAddReturn ==
    /\ pc = "L94w"
    /\ child # NoReturnCode
    /\ rc' = child
    /\ child' = NoReturnCode
    /\ IF rc' = 0 THEN Goto("L96") ELSE Goto("L100")
    /\ UNCHANGED <<debug, baseurl, default_username, username, password, token,
                   wire, resp, data, homepath, filepath, files, file, idx,
                   fopen, fbuf, fs, fs0, umask, tools, agent, log, trace>>

\* line 96: logging.info(Added key to SSH agent ...)
LogAdded ==
    /\ pc = "L96"
    /\ Emit("INFO", "added", idx)
    /\ Goto("L97")
    /\ UNCHANGED <<debug, baseurl, default_username, username, password, token,
                   wire, resp, data, homepath, filepath, files, file, idx,
                   fopen, fbuf, child, rc, fs, fs0, umask, tools, agent, trace>>

\* line 97: os.unlink(filename)
UnlinkKeyFile ==
    /\ pc = "L97"
    /\ fs' = RemoveFile(fs, CurName)
    /\ Did("unlink", idx, CurName)
    /\ Goto("L98")
    /\ UNCHANGED <<debug, baseurl, default_username, username, password, token,
                   wire, resp, data, homepath, filepath, files, file, idx,
                   fopen, fbuf, child, rc, fs0, umask, tools, agent, log>>

\* line 98: logging.info(Key file ... deleted.)
LogDeleted ==
    /\ pc = "L98"
    /\ Emit("INFO", "deleted", idx)
    /\ Goto("L83")
    /\ UNCHANGED <<debug, baseurl, default_username, username, password, token,
                   wire, resp, data, homepath, filepath, files, file, idx,
                   fopen, fbuf, child, rc, fs, fs0, umask, tools, agent, trace>>

\* line 100: logging.error(Failed to add key to SSH agent ...)
LogAddFailed ==
    /\ pc = "L100"
    /\ Emit("ERROR", "add_failed", idx)
    /\ Goto("L101")
    /\ UNCHANGED <<debug, baseurl, default_username, username, password, token,
                   wire, resp, data, homepath, filepath, files, file, idx,
                   fopen, fbuf, child, rc, fs, fs0, umask, tools, agent, trace>>

\* variant: a failed ssh-add ends the run
LeftForManualUse_Abort ==
    /\ pc = "L101"
    /\ Emit("INFO", "left", idx)
    /\ Terminate(SystemExit(1), "add_failed")
    /\ UNCHANGED <<debug, baseurl, default_username, username, password, token,
                   wire, resp, data, homepath, filepath, files, file, idx,
                   fopen, fbuf, child, rc, fs, fs0, umask, tools, agent, trace>>

\* line 101: logging.info(Key file ... was left for manual usage ...)
LeftForManualUse ==
    /\ pc = "L101"
    /\ Emit("INFO", "left", idx)
    /\ Goto("L83")
    /\ UNCHANGED <<debug, baseurl, default_username, username, password, token,
                   wire, resp, data, homepath, filepath, files, file, idx,
                   fopen, fbuf, child, rc, fs, fs0, umask, tools, agent, trace>>

\* line 133: a KeyboardInterrupt anywhere in the try block reaches the except
\* clause; a with block being left closes (and flushes) f on the way
KeyboardInterrupt ==
    /\ pc \notin {"L134", "L135", "exit"}
    /\ fs' = IF fopen THEN Flush(fs, CurName, fbuf) ELSE fs
    /\ fopen' = FALSE
    /\ fbuf' = ""
    /\ Goto("L134")
    /\ UNCHANGED <<debug, baseurl, default_username, username, password, token,
                   wire, resp, data, homepath, filepath, files, file, idx,
                   child, rc, fs0, umask, tools, agent, log, trace>>

\* line 134: print("\nInterrupted.")
PrintInterrupted ==
    /\ pc = "L134"
    /\ Emit("PRINT", "interrupted", 0)
    /\ Goto("L135")
    /\ UNCHANGED <<debug, baseurl, default_username, username, password, token,
                   wire, resp, data, homepath, filepath, files, file, idx,
                   fopen, fbuf, child, rc, fs, fs0, umask, tools, agent, trace>>

\* variant: the except clause ends the process with status 0
ExitInterrupted_Zero ==
    /\ pc = "L135"
    /\ Terminate(SystemExit(0), "interrupt")
    /\ UNCHANGED <<debug, baseurl, default_username, username, password, token,
                   wire, resp, data, homepath, filepath, files, file, idx,
                   fopen, fbuf, child, rc, fs, fs0, umask, tools, agent, log,
                   trace>>

\* line 135: exit(1)
ExitInterrupted ==
    /\ pc = "L135"
    /\ Terminate(SystemExit(1), "interrupt")
    /\ UNCHANGED <<debug, baseurl, default_username, username, password, token,
                   wire, resp, data, homepath, filepath, files, file, idx,
                   fopen, fbuf, child, rc, fs, fs0, umask, tools, agent, log,
                   trace>>

\* lines 134-135: a second KeyboardInterrupt, inside the except clause, is
\* caught by nothing
SecondInterrupt ==
    /\ pc \in {"L134", "L135"}
    /\ Terminate(Interrupted, "sigint")
    /\ UNCHANGED <<debug, baseurl, default_username, username, password, token,
                   wire, resp, data, homepath, filepath, files, file, idx,
                   fopen, fbuf, child, rc, fs, fs0, umask, tools, agent, log,
                   trace>>

Next ==
    \/ ParseArgs
    \/ ParseArgsExit
    \/ CheckBaseurl
    \/ PrintNoBaseurl
    \/ ExitNoBaseurl
    \/ PrintAuthenticating
    \/ GetUsername
    \/ GetLogin
    \/ InputPrompt
    \/ InputUsername
    \/ DefaultUsername
    \/ GetPassword
    \/ PrintNoPassword
    \/ ExitNoPassword
    \/ AuthConnect
    \/ AuthSend
    \/ AuthReceive
    \/ AuthReturn
    \/ StoreToken
    \/ AuthDebug
    \/ AuthLogError
    \/ AuthExit
    \/ FetchConnect
    \/ FetchSend
    \/ FetchReceive
    \/ FetchReturn
    \/ FetchLogError
    \/ FetchExit
    \/ ParseData
    \/ FetchDebug
    \/ GetHomepath
    \/ HomeLogError
    \/ HomeExit
    \/ GetSshKeyfilePath
    \/ DeleteOldKeysGlob
    \/ DeleteOldKeysNext
    \/ DeleteOldKeysDebug
    \/ DeleteOldKeysRemove
    \/ DeleteOldKeysReturn
    \/ LoopNext
    \/ OpenKeyFile
    \/ WriteKey
    \/ ChmodKeyFile
    \/ CloseKeyFile
    \/ LogWrote
    \/ Ls
    \/ SshAddStart
    \/ SshAddChild
    \/ SshAddReturn
    \/ LogAdded
    \/ UnlinkKeyFile
    \/ LogDeleted
    \/ LogAddFailed
    \/ LeftForManualUse
    \/ KeyboardInterrupt
    \/ PrintInterrupted
    \/ ExitInterrupted
    \/ SecondInterrupt

Spec == Init /\ [][Next]_vars

\* a step of the script or of a process it waits for: every step but the
\* user's interrupts
ProgramStep ==
    \/ ParseArgs
    \/ ParseArgsExit
    \/ CheckBaseurl
    \/ PrintNoBaseurl
    \/ ExitNoBaseurl
    \/ PrintAuthenticating
    \/ GetUsername
    \/ GetLogin
    \/ InputPrompt
    \/ InputUsername
    \/ DefaultUsername
    \/ GetPassword
    \/ PrintNoPassword
    \/ ExitNoPassword
    \/ AuthConnect
    \/ AuthSend
    \/ AuthReceive
    \/ AuthReturn
    \/ StoreToken
    \/ AuthDebug
    \/ AuthLogError
    \/ AuthExit
    \/ FetchConnect
    \/ FetchSend
    \/ FetchReceive
    \/ FetchReturn
    \/ FetchLogError
    \/ FetchExit
    \/ ParseData
    \/ FetchDebug
    \/ GetHomepath
    \/ HomeLogError
    \/ HomeExit
    \/ GetSshKeyfilePath
    \/ DeleteOldKeysGlob
    \/ DeleteOldKeysNext
    \/ DeleteOldKeysDebug
    \/ DeleteOldKeysRemove
    \/ DeleteOldKeysReturn
    \/ LoopNext
    \/ OpenKeyFile
    \/ WriteKey
    \/ ChmodKeyFile
    \/ CloseKeyFile
    \/ LogWrote
    \/ Ls
    \/ SshAddStart
    \/ SshAddChild
    \/ SshAddReturn
    \/ LogAdded
    \/ UnlinkKeyFile
    \/ LogDeleted
    \/ LogAddFailed
    \/ LeftForManualUse
    \/ PrintInterrupted
    \/ ExitInterrupted

\* the single thread keeps running: every prompt, request and external
\* command returns, and the statement after it is executed
FairSpec == Spec /\ WF_vars(ProgramStep)

(***************************************************************************)
(* Vocabulary of the properties.                                           *)
(***************************************************************************)
Exited == pc = "exit"
\* the user interrupted the run
UserInterrupted == pc \in {"L134", "L135"} \/ exitCause \in {"interrupt", "sigint"}
\* line 48 gave no home directory: HOME and USERPROFILE are unset or empty
HomeUndeterminable == homepath \in {None, ""}

\* the user's second interrupt killed the process
Killed == exitCause = "sigint"
Fetched == data # NoValue
NumKeys == Len(data.value)
HasOp(op) == \E i \in DOMAIN trace : trace[i].op = op
OpCount(op) == Cardinality({ i \in DOMAIN trace : trace[i].op = op })
HasOpFor(op, i) == \E j \in DOMAIN trace : trace[j].op = op /\ trace[j].idx = i
Logged(event, i) == \E j \in DOMAIN log : log[j].event = event /\ log[j].idx = i
FileOps == {"remove", "open", "write", "chmod", "unlink"}
NoFileOp == \A i \in DOMAIN trace : trace[i].op \notin FileOps

\* no permission bit for group or others (mode & 0o077 = 0)
OwnerOnly(mode) == BitAnd(mode, 7 * 8 + 7) = 0

\* the name is <prefix>_ followed by anything
UnderPrefix(n) ==
    /\ Len(n) > Len(Keyname)
    /\ SubSeq(n, 1, Len(Keyname) + 1) = Keyname \o <<"_">>

\* the deterministic path of record i
KeyPath(i) == Filename(filepath, data.value[i]).name
Warned(i) == Logged("add_failed", i)
InAgent(i) == \E j \in DOMAIN agent : agent[j] = data.value[i].privateKey
\* the install step of record i ran to its last statement
InstallFinished(i) == Logged("deleted", i) \/ Logged("left", i)

InAgentNoFile(i) == ~Exists(fs, KeyPath(i)) /\ InAgent(i)
FileLeftWarned(i) ==
    /\ Exists(fs, KeyPath(i))
    /\ fs[KeyPath(i)].mode = OwnerRW
    /\ Warned(i)

(***************************************************************************)
(* C1: when the install step of a record has just finished, exactly one of *)
(* these holds: no file at the record's path and the key in the agent, or  *)
(* the file at the path with mode 0600 and a warning logged; and no        *)
(* finished record is ever without file, without warning and without its   *)
(* key in the agent.                                                       *)
(***************************************************************************)
C1_InstallOutcome ==
    /\ (pc = "L83" /\ idx >= 1) =>
          /\ InAgentNoFile(idx) \/ FileLeftWarned(idx)
          /\ ~(InAgentNoFile(idx) /\ FileLeftWarned(idx))
    /\ Fetched =>
          \A i \in 1..NumKeys :
              InstallFinished(i) =>
                  ~(~Exists(fs, KeyPath(i)) /\ ~Warned(i) /\ ~InAgent(i))

\* two records installed: the first went to the agent, the second was left
C1_Witness ==
    /\ pc = "L83" /\ idx = 2
    /\ KeyPath(1) # KeyPath(2)
    /\ InAgentNoFile(1) /\ ~Warned(1)
    /\ FileLeftWarned(2) /\ ~InAgent(2)

(***************************************************************************)
(* C2: in every state of a run, no key file <prefix>_<format>_<algorithm>  *)
(* has permissions wider than owner read/write.                            *)
(***************************************************************************)
C2_NeverOpenPermissions ==
    \A n \in Names :
        (UnderPrefix(n) /\ Exists(fs, n)) => OwnerOnly(fs[n].mode)

(***************************************************************************)
(* C3: once a key file is about to be written or has been written, every   *)
(* existing file <prefix>_* was written by this run: none is left from     *)
(* before the run.                                                         *)
(***************************************************************************)
C3_NoFileFromPreviousRun ==
    (pc = "L86" \/ HasOp("open")) =>
        \A n \in Names :
            (UnderPrefix(n) /\ Exists(fs, n)) =>
                /\ \E j \in DOMAIN trace : trace[j].op = "open" /\ trace[j].arg = n
                /\ fs[n].content # OldFile.content

\* stale files existed, a key file of this run is on disk
C3_Witness ==
    /\ pc = "L83" /\ idx = 1 /\ FileLeftWarned(1)
    /\ Cardinality({ n \in Names : UnderPrefix(n) /\ Exists(fs0, n) }) = 2
    /\ \E n \in Names : UnderPrefix(n) /\ Exists(fs, n) /\ fs[n].content = "key-A"

(***************************************************************************)
(* C4: after a non-200 authenticate response the run is on auth()'s error  *)
(* path (log the error, exit(1)), in the interrupt handler, or has ended;  *)
(* a process that exits does so with code 1 (one that the user's second    *)
(* interrupt kills has no exit code); no fetch request was sent, no purge  *)
(* ran, no file changed.                                                   *)
(***************************************************************************)
C4_AuthFailureTouchesNothing ==
    (pc = "L43" \/ Logged("auth_failed", 0)) =>
        /\ pc \in {"L43", "L44", "L134", "L135", "exit"}
        /\ Exited => (exitCode = 1 \/ Killed)
        /\ ~HasOp("fetch") /\ ~HasOp("purge")
        /\ NoFileOp /\ fs = fs0

C4_Witness ==
    /\ Logged("auth_failed", 0) /\ Exited /\ exitCause = "auth_failed"
    /\ \E n \in Names : UnderPrefix(n) /\ Exists(fs, n)

(***************************************************************************)
(* C5: after a non-200 fetch response the run is on get_key()'s error path *)
(* (log the error, exit(1)), in the interrupt handler, or has ended; a     *)
(* process that exits does so with code 1 (one that the user's second      *)
(* interrupt kills has no exit code); no purge ran and the files are those *)
(* of the start of the run.                                                *)
(***************************************************************************)
C5_FetchFailureTouchesNothing ==
    (pc = "L76" \/ Logged("fetch_failed", 0)) =>
        /\ pc \in {"L76", "L77", "L134", "L135", "exit"}
        /\ Exited => (exitCode = 1 \/ Killed)
        /\ ~HasOp("purge")
        /\ NoFileOp /\ fs = fs0

C5_Witness ==
    /\ Logged("fetch_failed", 0) /\ Exited /\ exitCause = "fetch_failed"
    /\ OpCount("fetch") = 1
    /\ \E n \in Names : UnderPrefix(n) /\ Exists(fs, n)

(***************************************************************************)
(* C6: when ssh-add returns non-zero for a record the run goes on: right   *)
(* after the failure branch the record's file is in place with mode 0600   *)
(* and a warning is logged; the run can then end only by completing (or    *)
(* by a user interrupt), and a completed run has written, protected and    *)
(* offered to the agent every record and exits with code 0.                *)
(***************************************************************************)
C6_AgentFailureDoesNotAbort ==
    /\ (pc = "L83" /\ idx >= 1 /\ rc # 0) => FileLeftWarned(idx)
    /\ (Fetched /\ \E i \in 1..NumKeys : Logged("left", i)) =>
          /\ \A i \in 1..NumKeys : Logged("left", i) => Warned(i)
          /\ Exited =>
                \/ UserInterrupted
                \/ /\ exitCode = 0
                   /\ \A i \in 1..NumKeys :
                         /\ HasOpFor("open", i) /\ HasOpFor("chmod", i)
                         /\ HasOpFor("ssh-add", i)
                         /\ InstallFinished(i)

\* the first of two records failed, the second was installed, exit code 0
C6_Witness ==
    /\ Exited /\ exitCode = 0
    /\ Fetched /\ NumKeys = 2
    /\ Logged("left", 1) /\ FileLeftWarned(1)
    /\ Logged("deleted", 2) /\ InAgent(2)

(***************************************************************************)
(* C7: in a completed run in which ssh-add accepted every record, each     *)
(* record's file was opened and later unlinked, the agent holds the key    *)
(* text of each record in order (one identity per record), the exit code   *)
(* is 0 and no file <prefix>_* exists.                                     *)
(***************************************************************************)
C7_AllAcceptedLeavesNoFile ==
    (Exited /\ exitCode = 0 /\ Fetched
       /\ \A i \in 1..NumKeys : Logged("added", i)) =>
        /\ Len(agent) = NumKeys
        /\ \A i \in 1..NumKeys :
              /\ agent[i] = data.value[i].privateKey
              /\ \E a, b \in DOMAIN trace :
                    /\ a < b
                    /\ trace[a].op = "open" /\ trace[a].idx = i
                    /\ trace[b].op = "unlink" /\ trace[b].idx = i
        /\ \A n \in Names : UnderPrefix(n) => ~Exists(fs, n)

\* two different records accepted, stale files were there at the start
C7_Witness ==
    /\ Exited /\ exitCode = 0 /\ Fetched /\ NumKeys = 2
    /\ KeyPath(1) # KeyPath(2)
    /\ Logged("added", 1) /\ Logged("added", 2)
    /\ \E n \in Names : UnderPrefix(n) /\ Exists(fs0, n)

(***************************************************************************)
(* C8: the purge never runs twice; no key file is opened before the purge  *)
(* has run and emptied its list; once the install loop is reached, and in  *)
(* every completed run, the purge has run exactly once, also for a bundle  *)
(* of zero records, for which the completed run opens no file and exits    *)
(* with code 0.                                                            *)
(***************************************************************************)
C8_PurgeOnceBeforeWrites ==
    /\ OpCount("purge") <= 1
    /\ OpCount("purge") <= OpCount("fetch")
    /\ \A j \in DOMAIN trace :
          trace[j].op = "open" =>
              \E k \in 1..(j - 1) : trace[k].op = "purge"
    /\ \A j, k \in DOMAIN trace :
          (trace[j].op = "open" /\ trace[k].op = "remove") => k < j
    /\ (pc \in {"L83", "L86"} \/ (exitCode = 0 /\ Fetched)) => OpCount("purge") = 1
    /\ (exitCode = 0 /\ Fetched /\ NumKeys = 0) =>
          /\ ~HasOp("open")
          /\ \A n \in Names : UnderPrefix(n) => ~Exists(fs, n)
          /\ \A j \in DOMAIN log : log[j].level # "ERROR"

\* zero records fetched, stale files were purged, exit code 0
C8_Witness ==
    /\ Exited /\ exitCode = 0 /\ Fetched /\ NumKeys = 0
    /\ OpCount("purge") = 1 /\ OpCount("remove") = 2

(***************************************************************************)
(* C9: after a configuration error (the base URL is missing, or HOME and   *)
(* USERPROFILE give no home directory: homepath is None or empty) the run  *)
(* is on the error path (report, exit(1)), in the interrupt handler, or    *)
(* has ended; a process that exits does so with code 1 (one that the       *)
(* user's second interrupt kills has no exit code), and no file was        *)
(* deleted, created or modified; no file is touched before both values are *)
(* resolved.                                                               *)
(***************************************************************************)
C9_ConfigErrorBeforeMutation ==
    /\ (pc = "L117" \/ Logged("no_baseurl", 0) \/ HomeUndeterminable) =>
          /\ pc \in {"L117", "L118", "L50", "L53", "L134", "L135", "exit"}
          /\ Exited => (exitCode = 1 \/ Killed)
          /\ NoFileOp /\ fs = fs0
    /\ (~Truthy(baseurl) \/ filepath = NoValue) => (NoFileOp /\ fs = fs0)

FatalEvents == {"no_baseurl", "no_password", "auth_failed", "fetch_failed",
                "no_home", "interrupted"}
FatalLogged == \E e \in FatalEvents : Logged(e, 0)
\* a fatal error happened: one was reported, or the user interrupted the run
FatalError == FatalLogged \/ UserInterrupted
\* the run ended on an exception nothing catches
Crashed == exitCause = "exception"
\* the run ended on a command line parse_args() rejects
UsageError == exitCause = "usage"

(***************************************************************************)
(* C10 as stated: the exit code is 1 after every fatal error (no base URL, *)
(* empty password, failed auth, failed fetch, no home directory, user      *)
(* interrupt) and 0 in every other run.                                    *)
(***************************************************************************)
C10_ExitCodesAsStated ==
    Exited =>
        /\ exitCode \in {0, 1}
        /\ exitCode = 1 <=> FatalError

(***************************************************************************)
(* C10 amended: once a fatal error is reported or the user interrupts, the  *)
(* run can only end; a second interrupt inside the interrupt handler kills *)
(* the process with SIGINT; otherwise the exit code is 1 exactly after a   *)
(* fatal error or an uncaught exception, 2 exactly after a command line    *)
(* usage error, and 0 in every other run (the help text, or get_key()      *)
(* returning); a run whose only failures are ssh-add returning non-zero    *)
(* exits with 0.                                                           *)
(***************************************************************************)
C10_ExitCodes ==
    /\ FatalError =>
          pc \in {"L118", "L129", "L44", "L77", "L53", "L134", "L135", "exit"}
    /\ Exited =>
          /\ exitCode \in {0, 1, 2, KilledBySigint}
          /\ exitCode = KilledBySigint <=> Killed
          /\ exitCode = 1 <=> ((FatalError \/ Crashed) /\ ~Killed)
          /\ exitCode = 2 <=> UsageError
          /\ (Fetched /\ pc = "exit" /\ exitCause = "completed") => exitCode = 0

\* every record's ssh-add failed and the run still exits with 0
C10_Witness ==
    /\ Exited /\ exitCode = 0 /\ Fetched /\ NumKeys = 2
    /\ Warned(1) /\ Warned(2)

\* a body with its one enclosing pair of double quotes removed
Unquoted(body) ==
    IF Len(body) >= 2 /\ Head(body) = Quote /\ body[Len(body)] = Quote
    THEN SubSeq(body, 2, Len(body) - 1)
    ELSE body

(***************************************************************************)
(* C11: after a 200 authenticate response the stored token is the body     *)
(* with its one enclosing pair of double quotes removed and nothing else   *)
(* changed; after a non-200 response the run has failed and the error      *)
(* record reports the response's status and body.                          *)
(***************************************************************************)
C11_TokenIsUnquotedBody ==
    /\ pc = "L41" => token = Unquoted(resp.body)
    /\ Logged("auth_failed", 0) =>
          /\ pc \in {"L44", "L134", "L135", "exit"} /\ resp.status # HttpOK
          /\ \E j \in DOMAIN log :
                /\ log[j].event = "auth_failed"
                /\ log[j].status = resp.status
                /\ log[j].body = resp.body

(***************************************************************************)
(* C12: when ssh-add cannot be started for a record, the record's file is  *)
(* kept, a warning is logged for the record and the run goes on to the     *)
(* remaining records instead of ending there.                              *)
(***************************************************************************)
C12_InvocationErrorIsRejection ==
    (tools.sshadd = "missing") =>
        /\ Exists(fs, KeyPath(idx))
        /\ Warned(idx)
        /\ ~(Exited /\ ~UserInterrupted)

(***************************************************************************)
(* C13: no run receives key records from a successful fetch and then       *)
(* exits on the missing home directory without having installed them.      *)
(***************************************************************************)
C13_HomeErrorBeforeKeysFetched ==
    ~(/\ Exited /\ exitCause = "no_home"
      /\ Fetched /\ NumKeys > 0
      /\ \E i \in 1..NumKeys : ~HasOpFor("open", i))

\* the operations of one install, in the order lines 86-97 make them
InstallOps == <<"open", "write", "chmod", "ls", "ssh-add", "unlink">>
IsInstallOp(e) ==
    e.op \in {"open", "write", "chmod", "ls", "ssh-add", "unlink"}
OpRank(e) == CHOOSE r \in DOMAIN InstallOps : InstallOps[r] = e.op
\* the install operations of the run, in the order they happened
Installs == SelectSeq(trace, IsInstallOp)

(***************************************************************************)
(* C14: the install operations (open, write, chmod, ssh-add, unlink) come  *)
(* record by record in array order and never interleave: each operation is *)
(* followed by a later operation of the same record (in the order open,    *)
(* write, chmod, ssh-add, unlink) or by one of a later record, so none is  *)
(* repeated; each acts on its record's own path; a completed run has       *)
(* performed exactly one install per record, N in all.                     *)
(***************************************************************************)
C14_InstallsInArrayOrder ==
    /\ LET ins == Installs
       IN  /\ \A a \in 1..(Len(ins) - 1) :
                \/ ins[a].idx < ins[a + 1].idx
                \/ /\ ins[a].idx = ins[a + 1].idx
                   /\ OpRank(ins[a]) < OpRank(ins[a + 1])
           /\ ins # <<>> =>
                /\ Fetched
                /\ \A a \in DOMAIN ins : ins[a].idx \in 1..NumKeys
                /\ \A i \in 1..NumKeys :
                      LET path == KeyPath(i)
                      IN  \A a \in DOMAIN ins :
                             ins[a].idx = i => ins[a].arg = path
    /\ (exitCode = 0 /\ Fetched) =>
          /\ OpCount("open") = NumKeys
          /\ OpCount("ssh-add") = NumKeys
          /\ \A i \in 1..NumKeys :
                /\ HasOpFor("open", i) /\ HasOpFor("write", i)
                /\ HasOpFor("chmod", i) /\ HasOpFor("ssh-add", i)

\* two records installed in order: the first unlinked, the second left
C14_Witness ==
    /\ Exited /\ exitCode = 0 /\ Fetched /\ NumKeys = 2
    /\ OpCount("open") = 2 /\ OpCount("unlink") = 1
    /\ Logged("deleted", 1) /\ Logged("left", 2)

\* the run's state in the spec's state machine: 0 Unauthenticated,
\* 1 Authenticated, 2 Fetched, 3 Purging/Installing, 4 Done
Stage ==
    IF Exited THEN 4
    ELSE IF HasOp("purge") THEN 3
    ELSE IF Fetched THEN 2
    ELSE IF token # NoToken THEN 1
    ELSE 0

RequestsInOrder ==
    /\ OpCount("auth") <= 1
    /\ OpCount("fetch") <= 1
    /\ \A j \in DOMAIN trace :
          trace[j].op = "fetch" =>
              /\ \E k \in 1..(j - 1) : trace[k].op = "auth"
              /\ ~Logged("auth_failed", 0)
              /\ trace[j].arg # NoToken
              /\ trace[j].arg = token

(***************************************************************************)
(* C15: a run sends at most one authenticate and at most one fetch         *)
(* request; the fetch request comes after the authenticate request, only   *)
(* when that one did not fail, and carries the stored token, never an      *)
(* absent one; and the run's state never moves backward through            *)
(* Unauthenticated, Authenticated, Fetched, Purging/Installing, Done.      *)
(***************************************************************************)
C15_OneRequestEachForwardOnly ==
    /\ []RequestsInOrder
    /\ [][Stage' >= Stage]_vars

\* authenticated, fetched, purge under way
C15_Witness ==
    /\ pc = "L62" /\ files # {}
    /\ OpCount("auth") = 1 /\ OpCount("fetch") = 1
    /\ Stage = 3

\* delete_old_keys has just returned
PurgeReturned == pc = "L83" /\ idx = 0
NoStaleAtStart == \A n \in Names : UnderPrefix(n) => ~Exists(fs0, n)

(***************************************************************************)
(* C16: when delete_old_keys returns, no file <prefix>_* exists and every  *)
(* other file is as it was; while it runs it touches no other file; with   *)
(* no matching file at the start it changes nothing, removes nothing and   *)
(* is no error; and a second call right after would find no file to        *)
(* delete, so calling it twice has the effect of calling it once.          *)
(***************************************************************************)
C16_PurgeFrameAndIdempotence ==
    /\ pc \in {"L62", "L63", "L64", "L83"} /\ idx = 0 =>
          \A n \in Names : ~UnderPrefix(n) => fs[n] = fs0[n]
    /\ PurgeReturned =>
          /\ \A n \in Names : UnderPrefix(n) => ~Exists(fs, n)
          /\ NoStaleAtStart => (fs = fs0 /\ ~HasOp("remove"))
          /\ \A j \in DOMAIN log : log[j].level # "ERROR"
          /\ Glob(fs, FilePattern(filepath.name)) = {}
    /\ (Exited /\ HasOp("purge") /\ idx = 0) =>
          (UserInterrupted \/ exitCode = 0)

\* two matching files deleted, the file that does not match kept
C16_Witness ==
    /\ PurgeReturned
    /\ OpCount("remove") = 2
    /\ Exists(fs, Keyname) /\ fs[Keyname] = OldFile

\* the paths of the records whose ssh-add returned non-zero
LeftPaths == { KeyPath(i) : i \in { k \in 1..NumKeys : Logged("left", k) } }

(***************************************************************************)
(* C17: at the end of a completed run the files <prefix>_* are exactly the *)
(* paths of the records whose agent registration failed, and each still    *)
(* holds the key text of its record: no later record overwrote or deleted  *)
(* it.                                                                     *)
(***************************************************************************)
C17_LeftFilesSurvive ==
    (Exited /\ exitCode = 0 /\ Fetched) =>
        /\ { n \in Names : UnderPrefix(n) /\ Exists(fs, n) } = LeftPaths
        /\ \A i \in 1..NumKeys :
              Logged("left", i) =>
                  /\ Exists(fs, KeyPath(i))
                  /\ fs[KeyPath(i)].content = data.value[i].privateKey

(***************************************************************************)
(* C18 as stated: when every prompt, request and external command returns, *)
(* the run eventually exits with code 0 or 1; the install loop moves from  *)
(* one record to the next, never back and never past the end, and opens no *)
(* record's file twice.                                                    *)
(***************************************************************************)
C18_RunTerminatesZeroOrOne ==
    /\ <>Exited
    /\ [](Exited => exitCode \in {0, 1})
    /\ [][idx' \in {idx, idx + 1}]_vars
    /\ [][(pc = "L83" /\ pc' = "L86") => idx' = idx + 1]_vars
    /\ [](Fetched => idx <= NumKeys)
    /\ [](\A a, b \in DOMAIN trace :
            (trace[a].op = "open" /\ trace[b].op = "open" /\ a # b)
                => trace[a].idx # trace[b].idx)

(***************************************************************************)
(* C18 amended: when every prompt, request and external command returns,   *)
(* the run eventually ends: it exits with code 0, 1 or (after a command    *)
(* line usage error) 2, or is killed by the user's second interrupt; the   *)
(* install loop moves from one record to the next, never back and never    *)
(* past the end, and opens no record's file twice.                         *)
(***************************************************************************)
C18_RunTerminates ==
    /\ <>Exited
    /\ [](Exited => (exitCode \in {0, 1, 2} \/ Killed))
    /\ [][idx' \in {idx, idx + 1}]_vars
    /\ [][(pc = "L83" /\ pc' = "L86") => idx' = idx + 1]_vars
    /\ [](Fetched => idx <= NumKeys)
    /\ [](\A c, d \in DOMAIN trace :
            (trace[c].op = "open" /\ trace[d].op = "open" /\ c # d)
                => trace[c].idx # trace[d].idx)

\* a run over a full-length bundle of one repeated path has ended
C18_Witness ==
    /\ Exited /\ exitCode = 0 /\ Fetched
    /\ NumKeys = MaxKeys /\ idx = NumKeys
    /\ \A i \in 1..NumKeys : KeyPath(i) = KeyPath(1)

====
